---- MODULE Spec2Model ----
(***************************************************************************)
(* Model of crates/egui-wgpu/src/winit.rs: the Painter, its optional       *)
(* RenderState (an Arc<RwLock<Renderer>>), the phases of                   *)
(* paint_and_update_textures and external holders of RenderState clones.   *)
(***************************************************************************)
EXTENDS Integers, Sequences, FiniteSets, TLC

\* ---------------------------------------------------------------- bounds
MaxPaints == 2      \* paint calls made while the render state is present
MaxDelta == 1       \* length of textures_delta.set and of textures_delta.free
MaxFormats == 2     \* length of the list get_supported_formats returns
MaxRenderers == 2   \* Renderer instances ever allocated

\* ---------------------------------------------------------------- inputs
Devices == {"d1", "d2"}
Formats == {"FormatA", "FormatB"}
TexIds == {"t1", "t2"}
Clients == {"c1"}
PrimLists == {<<>>, <<"p1">>}     \* clipped_primitives

NoDevice == "no_device"
NoTex == "no_tex"
NoHolder == "no_holder"
PainterHolder == "painter"

SeqsUpTo(S, n) == UNION {[1..k -> S] : k \in 0..n}

\* Option<T>: None is the empty tuple, Some(x) the one-element tuple.
None == <<>>
Some(x) == <<x>>
is_none(o) == o = None
is_some(o) == o # None
unwrap(o) == o[1]

VARIABLES
    render_state,   \* Painter.render_state : Option<RenderState>
    renderers,      \* heap of Arc<RwLock<Renderer>> allocations, by index
    clones,         \* clones[c]: the Option<RenderState> client c got from render_state()
    pc,             \* position of the Painter inside paint_and_update_textures,
                    \* "dropped" once the Painter is gone (render_state then
                    \* keeps the value the field had)
    cur,            \* arguments of the most recent paint call
    calls,          \* renderer calls made by the most recent Painter method
    paints,         \* paint calls that found the render state present
    last,           \* what the last Painter method did and returned
    window_set      \* history: set_window has been called at least once

vars == <<render_state, renderers, clones, pc, cur, calls, paints, last, window_set>>

\* ------------------------------------------------------------ RenderState
\* RenderState { renderer: Arc<..> }: the Arc is an index into renderers.
RenderState(arc) == [renderer |-> arc]

\* ------------------------------------------------- the Renderer and its lock
\* renderer::Renderer::new(device, target_format, 1, 0) wrapped in a fresh,
\* unlocked RwLock. n_update_buffers and n_render count the calls made on
\* the instance over its life; alive is false once the Arc's last strong
\* reference is gone and the Renderer has been dropped.
RendererNew(device, target_format) ==
    [ device |-> device, target_format |-> target_format,
      textures |-> {}, n_update_buffers |-> 0, n_render |-> 0,
      writer |-> NoHolder, readers |-> {}, alive |-> TRUE ]

\* Arc::strong_count of allocation a, for a Painter at position p with field
\* rs and clients holding the clones cl. A dropped Painter holds nothing.
StrongCount(rs, p, cl, a) ==
    (IF p # "dropped" /\ is_some(rs) /\ unwrap(rs).renderer = a THEN 1 ELSE 0)
    + Cardinality({c \in Clients : is_some(cl[c]) /\ unwrap(cl[c]).renderer = a})

\* Arc's drop: an allocation nobody references any more is freed.
ArcSweep(heap, rs, p, cl) ==
    [a \in DOMAIN heap |->
        IF StrongCount(rs, p, cl, a) = 0 THEN [heap[a] EXCEPT !.alive = FALSE] ELSE heap[a]]

CanWrite(r) == r.writer = NoHolder /\ r.readers = {}
CanRead(r) == r.writer = NoHolder
LockWrite(r, h) == [r EXCEPT !.writer = h]
LockRead(r, h) == [r EXCEPT !.readers = @ \cup {h}]
Unlock(r, h) ==
    [r EXCEPT !.writer = IF @ = h THEN NoHolder ELSE @, !.readers = @ \ {h}]

\* The guard holder h has on r: "write", "read" or "none".
GuardOf(r, h) ==
    IF r.writer = h THEN "write" ELSE IF h \in r.readers THEN "read" ELSE "none"

Holders(r) == (IF r.writer = NoHolder THEN {} ELSE {r.writer}) \cup r.readers

Call(op, id, device, prims, guard) ==
    [op |-> op, id |-> id, device |-> device, prims |-> prims, guard |-> guard]

update_texture(r, id) == [r EXCEPT !.textures = @ \cup {id}]
update_buffers(r) == [r EXCEPT !.n_update_buffers = @ + 1]
render(r) == [r EXCEPT !.n_render = @ + 1]
free_texture(r, id) == [r EXCEPT !.textures = @ \ {id}]

\* --------------------------------------------------------------- Painter
\* The arguments of a paint call; resident is history kept until the
\* render-record is done, the ids of the removal set that were resident in
\* the Renderer when the call started.
PaintArgs(prims, set, free, device) ==
    [ set |-> set, free |-> free, device |-> device, prims |-> prims,
      resident |-> IF is_none(render_state) THEN {}
                   ELSE {id \in renderers[unwrap(render_state).renderer].textures :
                            \E i \in DOMAIN free : free[i] = id} ]

NoArgs == [set |-> <<>>, free |-> <<>>, device |-> NoDevice, prims |-> <<>>, resident |-> {}]

\* The record of a Painter method call: what it returned (state for
\* render_state, side for max_texture_side), whether it panicked, the list
\* get_supported_formats returned if it was queried, and whether
\* Renderer::new was called.
Last(op) ==
    [op |-> op, state |-> None, side |-> None, panicked |-> FALSE,
     queried |-> FALSE, formats |-> <<>>, constructed |-> FALSE]

\* Painter::new
Init ==
    /\ render_state = None
    /\ renderers = <<>>
    /\ clones = [c \in Clients |-> None]
    /\ pc = "idle"
    /\ cur = NoArgs
    /\ calls = <<>>
    /\ paints = 0
    /\ last = Last("new")
    /\ window_set = FALSE

\* The guard client c holds through its clone.
ClientGuard(c) ==
    IF is_none(clones[c]) THEN "none"
    ELSE GuardOf(renderers[unwrap(clones[c]).renderer], c)

\* Mutant: render_state() hands out a copy of the Renderer in an Arc of its
\* own instead of a clone of the shared Arc.
render_state_copies(c) ==
    /\ pc = "idle"
    /\ last' = [Last("render_state") EXCEPT !.state = render_state]
    /\ cur' = NoArgs /\ calls' = <<>>
    /\ IF is_some(render_state) /\ ClientGuard(c) = "none"
       THEN /\ Len(renderers) < MaxRenderers
            /\ clones' = [clones EXCEPT ![c] = Some(RenderState(Len(renderers) + 1))]
            /\ renderers' = Append(renderers,
                   [renderers[unwrap(render_state).renderer] EXCEPT
                       !.writer = NoHolder, !.readers = {}])
       ELSE UNCHANGED <<clones, renderers>>
    /\ UNCHANGED <<render_state, pc, paints, window_set>>

\* Mutant: render_state() reads the field through the Renderer's lock, so it
\* waits while a writer holds it.
render_state_reads_lock(c) ==
    /\ pc = "idle"
    /\ is_some(render_state) => CanRead(renderers[unwrap(render_state).renderer])
    /\ clones' = IF ClientGuard(c) = "none"
                 THEN [clones EXCEPT ![c] = render_state]
                 ELSE clones
    /\ last' = [Last("render_state") EXCEPT !.state = render_state]
    /\ cur' = NoArgs /\ calls' = <<>>
    /\ renderers' = ArcSweep(renderers, render_state, pc, clones')
    /\ UNCHANGED <<render_state, pc, paints, window_set>>

\* Painter::render_state, called by client c. The client keeps the returned
\* clone in place of its old one unless it holds a guard borrowed from the
\* old one; then the returned clone is dropped at once.
render_state_call(c) ==
    /\ pc = "idle"
    /\ clones' = IF ClientGuard(c) = "none"
                 THEN [clones EXCEPT ![c] = render_state]
                 ELSE clones
    /\ last' = [Last("render_state") EXCEPT !.state = render_state]
    /\ cur' = NoArgs /\ calls' = <<>>
    /\ renderers' = ArcSweep(renderers, render_state, pc, clones')
    /\ UNCHANGED <<render_state, pc, paints, window_set>>

\* Painter::init_render_state: allocates the Arc and returns the RenderState.
init_render_state(heap, device, target_format) ==
    [ heap |-> Append(heap, RendererNew(device, target_format)),
      rs |-> RenderState(Len(heap) + 1) ]

\* Mutant: the last supported format instead of the first.
swapchain_format_last(formats) == formats[Len(formats)]

\* surface.get_supported_formats(adapter)[0], on a non-empty list
swapchain_format_of(formats) == formats[1]

\* Mutant: an empty format list falls back to a default format.
ensure_render_state_default_format(device, formats) ==
    IF is_none(render_state)
    THEN LET swapchain_format == IF formats = <<>> THEN "FormatA" ELSE formats[1]
             init == init_render_state(renderers, device, swapchain_format)
         IN  /\ Len(renderers) < MaxRenderers
             /\ renderers' = init.heap
             /\ render_state' = Some(init.rs)
             /\ last' = [Last("set_window") EXCEPT !.queried = TRUE,
                             !.formats = formats, !.constructed = TRUE]
    ELSE /\ last' = Last("set_window")
         /\ UNCHANGED <<render_state, renderers>>

\* Mutant: no is_none() test, every attachment initializes a render state.
ensure_render_state_always(device, formats) ==
    IF formats = <<>>
    THEN /\ last' = [Last("set_window") EXCEPT !.panicked = TRUE, !.queried = TRUE]
         /\ UNCHANGED <<render_state, renderers>>
    ELSE LET init == init_render_state(renderers, device, formats[1])
         IN  /\ Len(renderers) < MaxRenderers
             /\ renderers' = init.heap
             /\ render_state' = Some(init.rs)
             /\ last' = [Last("set_window") EXCEPT !.queried = TRUE,
                             !.formats = formats, !.constructed = TRUE]

\* Mutant: a present render state is rebuilt when the surface's first
\* format is not the Renderer's target format.
ensure_render_state_follows_format(device, formats) ==
    IF formats = <<>>
    THEN /\ last' = [Last("set_window") EXCEPT !.panicked = TRUE, !.queried = TRUE]
         /\ UNCHANGED <<render_state, renderers>>
    ELSE IF is_some(render_state)
            /\ renderers[unwrap(render_state).renderer].target_format = formats[1]
         THEN /\ last' = [Last("set_window") EXCEPT !.queried = TRUE, !.formats = formats]
              /\ UNCHANGED <<render_state, renderers>>
         ELSE LET init == init_render_state(renderers, device, formats[1])
              IN  /\ Len(renderers) < MaxRenderers
                  /\ renderers' = init.heap
                  /\ render_state' = Some(init.rs)
                  /\ last' = [Last("set_window") EXCEPT !.queried = TRUE,
                                  !.formats = formats, !.constructed = TRUE]

\* Painter::ensure_render_state_for_surface; formats is what
\* surface.get_supported_formats(adapter) returns.
ensure_render_state_for_surface(device, formats) ==
    IF is_none(render_state)
    THEN IF formats = <<>>
         THEN \* indexing the empty list panics
              /\ last' = [Last("set_window") EXCEPT !.panicked = TRUE, !.queried = TRUE]
              /\ UNCHANGED <<render_state, renderers>>
         ELSE LET swapchain_format == swapchain_format_of(formats)
                  init == init_render_state(renderers, device, swapchain_format)
              IN  /\ Len(renderers) < MaxRenderers
                  /\ renderers' = init.heap
                  /\ render_state' = Some(init.rs)
                  /\ last' = [Last("set_window") EXCEPT !.queried = TRUE,
                                  !.formats = formats, !.constructed = TRUE]
    ELSE /\ last' = Last("set_window")
         /\ UNCHANGED <<render_state, renderers>>

\* Painter::set_window
set_window(device, formats) ==
    /\ pc = "idle"
    /\ ensure_render_state_for_surface(device, formats)
    /\ cur' = NoArgs /\ calls' = <<>>
    /\ UNCHANGED <<clones, pc, paints>>
    /\ window_set' = TRUE

max_texture_dimension_2d(device) == IF device = "d1" THEN 2048 ELSE 8192

\* Mutant: max_texture_side initializes the render state on first use.
max_texture_side_initializes(device) ==
    /\ pc = "idle"
    /\ last' = [Last("max_texture_side") EXCEPT !.side = Some(max_texture_dimension_2d(device))]
    /\ cur' = NoArgs /\ calls' = <<>>
    /\ IF is_none(render_state)
       THEN LET init == init_render_state(renderers, device, "FormatA")
            IN  /\ Len(renderers) < MaxRenderers
                /\ renderers' = init.heap
                /\ render_state' = Some(init.rs)
       ELSE UNCHANGED <<render_state, renderers>>
    /\ UNCHANGED <<clones, pc, paints, window_set>>

\* Painter::max_texture_side
max_texture_side(device) ==
    /\ pc = "idle"
    /\ last' = [Last("max_texture_side") EXCEPT !.side = Some(max_texture_dimension_2d(device))]
    /\ cur' = NoArgs /\ calls' = <<>>
    /\ UNCHANGED <<render_state, renderers, clones, pc, paints, window_set>>

\* Mutant: destroy releases the Renderer's textures.
destroy_frees_textures ==
    /\ pc = "idle"
    /\ last' = Last("destroy")
    /\ cur' = NoArgs /\ calls' = <<>>
    /\ renderers' = IF is_none(render_state) THEN renderers
                    ELSE [renderers EXCEPT ![unwrap(render_state).renderer].textures = {}]
    /\ UNCHANGED <<render_state, clones, pc, paints, window_set>>

\* Mutant: destroy drops the render state.
destroy_drops_state ==
    /\ pc = "idle"
    /\ last' = Last("destroy")
    /\ cur' = NoArgs /\ calls' = <<>>
    /\ render_state' = None
    /\ UNCHANGED <<renderers, clones, pc, paints, window_set>>

\* Painter::destroy
destroy ==
    /\ pc = "idle"
    /\ last' = Last("destroy")
    /\ cur' = NoArgs /\ calls' = <<>>
    /\ UNCHANGED <<render_state, renderers, clones, pc, paints, window_set>>

\* The Painter goes out of scope: its field, an Arc handle, is dropped.
drop_painter ==
    /\ pc = "idle"
    /\ pc' = "dropped"
    /\ last' = Last("drop")
    /\ cur' = NoArgs /\ calls' = <<>>
    /\ renderers' = ArcSweep(renderers, render_state, "dropped", clones)
    /\ UNCHANGED <<render_state, clones, paints, window_set>>

\* ------------------------------------------- paint_and_update_textures
\* The Arc the paint call in progress works on.
PaintArc == unwrap(render_state).renderer

\* Mutant: an absent render state is initialized by the paint call itself.
paint_initializes_lazily(prims, set, free, device) ==
    /\ pc = "idle"
    /\ cur' = PaintArgs(prims, set, free, device)
    /\ calls' = <<>>
    /\ last' = Last("paint_and_update_textures")
    /\ paints < MaxPaints
    /\ pc' = "write_upload"
    /\ paints' = paints + 1
    /\ IF is_none(render_state)
       THEN LET init == init_render_state(renderers, device, "FormatA")
            IN  /\ Len(renderers) < MaxRenderers
                /\ renderers' = init.heap
                /\ render_state' = Some(init.rs)
       ELSE UNCHANGED <<render_state, renderers>>
    /\ UNCHANGED <<clones, window_set>>

\* Entry: the early return on an absent render state, else the screen
\* descriptor is built and the call goes on to the first write().
paint_and_update_textures(prims, set, free, device) ==
    /\ pc = "idle"
    /\ cur' = PaintArgs(prims, set, free, device)
    /\ calls' = <<>>
    /\ last' = Last("paint_and_update_textures")
    /\ IF is_none(render_state)
       THEN UNCHANGED <<pc, paints>>
       ELSE /\ paints < MaxPaints
            /\ pc' = "write_upload"
            /\ paints' = paints + 1
    /\ UNCHANGED <<render_state, renderers, clones, window_set>>

\* Mutant: the upload block takes the lock with read().
PaintLockUploadShared ==
    /\ pc = "write_upload"
    /\ CanRead(renderers[PaintArc])
    /\ renderers' = [renderers EXCEPT ![PaintArc] = LockRead(@, PainterHolder)]
    /\ pc' = "upload"
    /\ UNCHANGED <<render_state, clones, cur, calls, paints, last, window_set>>

\* render_state.renderer.write() of the upload block
PaintLockUpload ==
    /\ pc = "write_upload"
    /\ CanWrite(renderers[PaintArc])
    /\ renderers' = [renderers EXCEPT ![PaintArc] = LockWrite(@, PainterHolder)]
    /\ pc' = "upload"
    /\ UNCHANGED <<render_state, clones, cur, calls, paints, last, window_set>>

RECURSIVE UpdateTextures(_, _)
UpdateTextures(st, set) ==
    IF set = <<>> THEN st
    ELSE UpdateTextures(
            [ r |-> update_texture(st.r, Head(set)),
              log |-> Append(st.log, Call("update_texture", Head(set), cur.device, <<>>,
                                          GuardOf(st.r, PainterHolder))) ],
            Tail(set))

RECURSIVE FreeTextures(_, _)
FreeTextures(st, free) ==
    IF free = <<>> THEN st
    ELSE FreeTextures(
            [ r |-> free_texture(st.r, Head(free)),
              log |-> Append(st.log, Call("free_texture", Head(free), NoDevice, <<>>,
                                          GuardOf(st.r, PainterHolder))) ],
            Tail(free))

\* Mutant: the upload block also frees the delta's removals.
PaintUploadFreesEarly ==
    /\ pc = "upload"
    /\ LET st0 == FreeTextures([r |-> renderers[PaintArc], log |-> calls], cur.free)
           st == UpdateTextures(st0, cur.set)
           r2 == update_buffers(st.r)
       IN  /\ calls' = Append(st.log, Call("update_buffers", NoTex, cur.device, cur.prims,
                                            GuardOf(st.r, PainterHolder)))
           /\ renderers' = [renderers EXCEPT ![PaintArc] = Unlock(r2, PainterHolder)]
    /\ pc' = "read_render"
    /\ UNCHANGED <<render_state, clones, cur, paints, last, window_set>>

\* Mutant: the write guard of the upload block is still held when the call
\* goes on to the render-record.
PaintUploadKeepsGuard ==
    /\ pc = "upload"
    /\ LET st == UpdateTextures([r |-> renderers[PaintArc], log |-> calls], cur.set)
           r2 == update_buffers(st.r)
       IN  /\ calls' = Append(st.log, Call("update_buffers", NoTex, cur.device, cur.prims,
                                            GuardOf(st.r, PainterHolder)))
           /\ renderers' = [renderers EXCEPT ![PaintArc] = r2]
    /\ pc' = "read_render"
    /\ UNCHANGED <<render_state, clones, cur, paints, last, window_set>>

\* The upload block: update_texture per entry of the set, update_buffers,
\* then the guard goes out of scope.
PaintUpload ==
    /\ pc = "upload"
    /\ LET st == UpdateTextures([r |-> renderers[PaintArc], log |-> calls], cur.set)
           r2 == update_buffers(st.r)
       IN  /\ calls' = Append(st.log, Call("update_buffers", NoTex, cur.device, cur.prims,
                                            GuardOf(st.r, PainterHolder)))
           /\ renderers' = [renderers EXCEPT ![PaintArc] = Unlock(r2, PainterHolder)]
    /\ pc' = "read_render"
    /\ UNCHANGED <<render_state, clones, cur, paints, last, window_set>>

\* render_state.renderer.read()
PaintLockRender ==
    /\ pc = "read_render"
    /\ CanRead(renderers[PaintArc])
    /\ renderers' = [renderers EXCEPT ![PaintArc] = LockRead(@, PainterHolder)]
    /\ pc' = "render"
    /\ UNCHANGED <<render_state, clones, cur, calls, paints, last, window_set>>

\* Mutant: nothing is recorded for an empty primitive list.
PaintRenderSkipsEmpty ==
    /\ pc = "render"
    /\ LET r == renderers[PaintArc]
       IN  IF cur.prims = <<>>
           THEN /\ calls' = calls
                /\ renderers' = [renderers EXCEPT ![PaintArc] = Unlock(r, PainterHolder)]
           ELSE /\ calls' = Append(calls, Call("render", NoTex, NoDevice, cur.prims,
                                                GuardOf(r, PainterHolder)))
                /\ renderers' = [renderers EXCEPT ![PaintArc] = Unlock(render(r), PainterHolder)]
    /\ pc' = "write_free"
    /\ cur' = [cur EXCEPT !.resident = {}]
    /\ UNCHANGED <<render_state, clones, paints, last, window_set>>

\* Mutant: the read guard of the render-record is not dropped.
PaintRenderKeepsGuard ==
    /\ pc = "render"
    /\ LET r == renderers[PaintArc]
       IN  /\ calls' = Append(calls, Call("render", NoTex, NoDevice, cur.prims,
                                           GuardOf(r, PainterHolder)))
           /\ renderers' = [renderers EXCEPT ![PaintArc] = render(r)]
    /\ pc' = "write_free"
    /\ cur' = [cur EXCEPT !.resident = {}]
    /\ UNCHANGED <<render_state, clones, paints, last, window_set>>

\* .render(encoder, output_view, clipped_primitives, screen_descriptor, None);
\* the temporary read guard is dropped at the end of the statement.
PaintRender ==
    /\ pc = "render"
    /\ LET r == renderers[PaintArc]
       IN  /\ calls' = Append(calls, Call("render", NoTex, NoDevice, cur.prims,
                                           GuardOf(r, PainterHolder)))
           /\ renderers' = [renderers EXCEPT ![PaintArc] = Unlock(render(r), PainterHolder)]
    /\ pc' = "write_free"
    /\ cur' = [cur EXCEPT !.resident = {}]
    /\ UNCHANGED <<render_state, clones, paints, last, window_set>>

\* render_state.renderer.write() of the free block
PaintLockFree ==
    /\ pc = "write_free"
    /\ CanWrite(renderers[PaintArc])
    /\ renderers' = [renderers EXCEPT ![PaintArc] = LockWrite(@, PainterHolder)]
    /\ pc' = "free"
    /\ UNCHANGED <<render_state, clones, cur, calls, paints, last, window_set>>

\* Mutant: the free block takes the guard and frees nothing.
PaintFreeSkips ==
    /\ pc = "free"
    /\ calls' = calls
    /\ renderers' = [renderers EXCEPT ![PaintArc] = Unlock(@, PainterHolder)]
    /\ pc' = "idle"
    /\ UNCHANGED <<render_state, clones, cur, paints, last, window_set>>

\* The free block: free_texture per entry of free, guard dropped, return.
PaintFree ==
    /\ pc = "free"
    /\ LET st == FreeTextures([r |-> renderers[PaintArc], log |-> calls], cur.free)
       IN  /\ calls' = st.log
           /\ renderers' = [renderers EXCEPT ![PaintArc] = Unlock(st.r, PainterHolder)]
    /\ pc' = "idle"
    /\ UNCHANGED <<render_state, clones, cur, paints, last, window_set>>

\* ------------------------------------- external holders of a RenderState
ClientRead(c) ==
    /\ is_some(clones[c])
    /\ ClientGuard(c) = "none"
    /\ LET a == unwrap(clones[c]).renderer
       IN  /\ CanRead(renderers[a])
           /\ renderers' = [renderers EXCEPT ![a] = LockRead(@, c)]
    /\ UNCHANGED <<render_state, clones, pc, cur, calls, paints, last, window_set>>

ClientWrite(c) ==
    /\ is_some(clones[c])
    /\ ClientGuard(c) = "none"
    /\ LET a == unwrap(clones[c]).renderer
       IN  /\ CanWrite(renderers[a])
           /\ renderers' = [renderers EXCEPT ![a] = LockWrite(@, c)]
    /\ UNCHANGED <<render_state, clones, pc, cur, calls, paints, last, window_set>>

ClientRelease(c) ==
    /\ is_some(clones[c])
    /\ ClientGuard(c) # "none"
    /\ LET a == unwrap(clones[c]).renderer
       IN  renderers' = [renderers EXCEPT ![a] = Unlock(@, c)]
    /\ UNCHANGED <<render_state, clones, pc, cur, calls, paints, last, window_set>>

\* The holder of a write guard mutates the Renderer through its clone.
ClientUpdateTexture(c, id) ==
    /\ ClientGuard(c) = "write"
    /\ LET a == unwrap(clones[c]).renderer
       IN  /\ id \notin renderers[a].textures
           /\ renderers' = [renderers EXCEPT ![a] = update_texture(@, id)]
    /\ UNCHANGED <<render_state, clones, pc, cur, calls, paints, last, window_set>>

ClientFreeTexture(c, id) ==
    /\ ClientGuard(c) = "write"
    /\ LET a == unwrap(clones[c]).renderer
       IN  /\ id \in renderers[a].textures
           /\ renderers' = [renderers EXCEPT ![a] = free_texture(@, id)]
    /\ UNCHANGED <<render_state, clones, pc, cur, calls, paints, last, window_set>>

\* A client drops its clone; the guard it borrows from it goes first.
ClientDrop(c) ==
    /\ is_some(clones[c])
    /\ ClientGuard(c) = "none"
    /\ clones' = [clones EXCEPT ![c] = None]
    /\ renderers' = ArcSweep(renderers, render_state, pc, clones')
    /\ UNCHANGED <<render_state, pc, cur, calls, paints, last, window_set>>

Next ==
    \/ \E c \in Clients : render_state_call(c)
    \/ \E d \in Devices, f \in SeqsUpTo(Formats, MaxFormats) : set_window(d, f)
    \/ \E d \in Devices : max_texture_side(d)
    \/ destroy
    \/ \E p \in PrimLists, s \in SeqsUpTo(TexIds, MaxDelta),
          f \in SeqsUpTo(TexIds, MaxDelta), d \in Devices :
            paint_and_update_textures(p, s, f, d)
    \/ PaintLockUpload
    \/ PaintUpload
    \/ PaintLockRender
    \/ PaintRender
    \/ PaintLockFree
    \/ PaintFree
    \/ \E c \in Clients : ClientRead(c)
    \/ \E c \in Clients : ClientWrite(c)
    \/ \E c \in Clients : ClientRelease(c)
    \/ \E c \in Clients, id \in TexIds : ClientUpdateTexture(c, id)
    \/ \E c \in Clients, id \in TexIds : ClientFreeTexture(c, id)
    \/ \E c \in Clients : ClientDrop(c)
    \/ drop_painter

Spec == Init /\ [][Next]_vars

\* A step of the paint call in progress: one of its three lock acquisitions
\* or one of the three blocks run under the guard.
PaintStep ==
    \/ PaintLockUpload \/ PaintUpload
    \/ PaintLockRender \/ PaintRender
    \/ PaintLockFree \/ PaintFree

\* The scheduling under which termination of a paint call is stated: the
\* Painter's thread keeps running and the lock is fair (a step of the call
\* that can be taken again and again is taken), and an external holder of a
\* guard releases it.
FairSpec ==
    /\ Spec
    /\ SF_vars(PaintStep)
    /\ \A c \in Clients : WF_vars(ClientRelease(c))

\* ================================================================ claims
UploadOps == {"update_texture", "update_buffers"}
OpsOf(log) == [i \in DOMAIN log |-> log[i].op]
IdsOf(log, op) ==
    LET sel == SelectSeq(log, LAMBDA c : c.op = op)
    IN  [i \in DOMAIN sel |-> sel[i].id]

\* A paint call that found the render state present has returned.
PaintDone ==
    pc = "idle" /\ last.op = "paint_and_update_textures" /\ is_some(render_state)

\* C1: within one paint call on a present render state, every
\* update_texture call for the delta's additions and the update_buffers call
\* come before the render call, and every free_texture call for the delta's
\* removals comes strictly after it.
C1_UploadsBeforeRenderBeforeFrees ==
    /\ \A i \in DOMAIN calls :
          /\ calls[i].op \in UploadOps => \A j \in 1..i : calls[j].op # "render"
          /\ calls[i].op = "free_texture" => \E j \in 1..(i - 1) : calls[j].op = "render"
    /\ PaintDone =>
          /\ IdsOf(calls, "update_texture") = cur.set
          /\ IdsOf(calls, "free_texture") = cur.free
          /\ \E i \in DOMAIN calls : calls[i].op = "update_buffers"
          /\ \E i \in DOMAIN calls : calls[i].op = "render"

C1_Witness ==
    /\ PaintDone
    /\ Len(cur.set) = MaxDelta /\ Len(cur.free) = MaxDelta
    /\ cur.set # cur.free
    /\ Len(calls) = 2 * MaxDelta + 2
    /\ calls[1].op = "update_texture" /\ calls[MaxDelta + 2].op = "render"
    /\ calls[Len(calls)].op = "free_texture"

\* C2: once the render state is present it is present in every later state,
\* whatever method is called.
C2_PresentStaysPresent == [][is_some(render_state) => is_some(render_state')]_vars

C2_Witness ==
    /\ is_some(render_state) /\ last.op = "destroy" /\ paints > 0
    /\ \E c \in Clients : is_some(clones[c])

\* C3: Renderer::new is invoked at most once on one Painter, and the
\* Painter and every clone handed out by render_state() hold that one
\* instance.
C3_InitializedAtMostOnce ==
    /\ Len(renderers) <= 1
    /\ is_some(render_state) => unwrap(render_state).renderer = 1 /\ Len(renderers) = 1
    /\ \A c \in Clients :
          is_some(clones[c]) => is_some(render_state) /\ clones[c] = render_state

C3_Witness ==
    /\ Len(renderers) = 1 /\ paints = MaxPaints /\ pc = "idle"
    /\ last.op = "set_window" /\ ~last.constructed
    /\ \E c \in Clients : clones[c] = render_state

\* A step of an external holder: it takes or releases a lock, mutates a
\* Renderer under its write guard or drops its clone, and changes nothing of
\* the Painter.
ClientStep ==
    /\ pc' = pc /\ last' = last /\ render_state' = render_state
    /\ DOMAIN renderers' = DOMAIN renderers
    /\ \/ \E a \in DOMAIN renderers : Holders(renderers'[a]) # Holders(renderers[a])
       \/ \E a \in DOMAIN renderers :
             renderers[a].writer \in Clients /\ renderers'[a] # renderers[a]
       \/ \E c \in Clients :
             is_some(render_state) /\ is_some(clones[c]) /\ is_none(clones'[c])

\* A step that is the call (for paint: the entry) of Painter method op.
MethodStep(op) == pc = "idle" /\ last'.op = op /\ ~ClientStep

\* The Renderer behind the Painter's render state.
TheRenderer == renderers[unwrap(render_state).renderer]

\* C4: a paint call on an absent render state makes no renderer call, takes
\* no lock, does not panic, returns at once and leaves the render state
\* absent, for every delta and primitive list.
C4_PaintAbsentIsNoOp ==
    [][(MethodStep("paint_and_update_textures") /\ is_none(render_state)) =>
          /\ pc' = "idle"
          /\ calls' = <<>>
          /\ ~last'.panicked
          /\ is_none(render_state')
          /\ renderers' = renderers
          /\ clones' = clones
          /\ paints' = paints]_vars

C4_Witness ==
    /\ is_none(render_state) /\ pc = "idle"
    /\ last.op = "paint_and_update_textures"
    /\ Len(cur.set) = MaxDelta /\ Len(cur.free) = MaxDelta /\ cur.prims # <<>>
    /\ calls = <<>>

\* C5: the first attachment constructs the Renderer with the first format
\* of the list the surface reports; for [FormatA, FormatB] that is FormatA.
C5_FirstSupportedFormat ==
    (last.op = "set_window" /\ last.constructed) =>
        /\ is_some(render_state)
        /\ last.formats # <<>>
        /\ TheRenderer.target_format = Head(last.formats)
        /\ last.formats = <<"FormatA", "FormatB">> => TheRenderer.target_format = "FormatA"

C5_Witness ==
    /\ last.op = "set_window" /\ last.constructed
    /\ last.formats = <<"FormatA", "FormatB">>
    /\ is_some(render_state) /\ TheRenderer.target_format = "FormatA"

\* C6: set_window on a present render state does not query the surface's
\* formats, constructs no Renderer and leaves the render state and the
\* Renderer (so its target format) as they were, whatever its arguments.
C6_AttachIdempotent ==
    [][(MethodStep("set_window") /\ is_some(render_state)) =>
          /\ ~last'.queried
          /\ ~last'.constructed
          /\ ~last'.panicked
          /\ render_state' = render_state
          /\ renderers' = renderers]_vars

C6_Witness ==
    /\ last = Last("set_window")
    /\ is_some(render_state) /\ TheRenderer.target_format = "FormatB"
    /\ paints = 1

\* C7: the paint call mutates the Renderer (update_texture, update_buffers,
\* free_texture) only under its write guard and records the render under
\* its read guard; a writer never coexists with another holder, while an
\* external reader may hold the lock during the render phase.
C7_LockDiscipline ==
    /\ \A i \in DOMAIN calls :
          calls[i].guard = IF calls[i].op = "render" THEN "read" ELSE "write"
    /\ \A a \in DOMAIN renderers :
          renderers[a].writer # NoHolder => Holders(renderers[a]) = {renderers[a].writer}
    /\ pc \in {"upload", "free"} => TheRenderer.writer = PainterHolder
    /\ pc = "render" => PainterHolder \in TheRenderer.readers

C7_Witness ==
    /\ pc = "render"
    /\ \E c \in Clients : TheRenderer.readers = {PainterHolder, c}
    /\ Len(calls) = MaxDelta + 1
    /\ \A i \in DOMAIN calls : calls[i].guard = "write"

\* C8: a fresh Painter has no render state, and until a set_window call
\* constructs one the state stays absent and render_state() returns None,
\* whatever other methods are called.
C8_AbsentUntilAttached ==
    /\ is_none(render_state)
    /\ [][(is_none(render_state) /\ ~(MethodStep("set_window") /\ last'.constructed)) =>
             /\ is_none(render_state')
             /\ MethodStep("render_state") => is_none(last'.state)]_vars

C8_Witness ==
    /\ is_none(render_state)
    /\ last.op = "render_state" /\ is_none(last.state)
    /\ \A c \in Clients : is_none(clones[c])

\* C9: after the attachment, N paint calls make exactly N render and N
\* update_buffers calls on the one Renderer, and each call makes one
\* update_texture per entry of its delta's set and one free_texture per
\* entry of its free list, and nothing else.
C9_ExactCallCounts ==
    /\ (pc = "idle" /\ is_some(render_state)) =>
          /\ TheRenderer.n_render = paints
          /\ TheRenderer.n_update_buffers = paints
    /\ PaintDone =>
          OpsOf(calls) = [i \in 1..Len(cur.set) |-> "update_texture"]
                           \o <<"update_buffers", "render">>
                           \o [i \in 1..Len(cur.free) |-> "free_texture"]

C9_Witness ==
    /\ PaintDone /\ paints = 2
    /\ cur.set = <<>> /\ cur.free = <<>> /\ cur.prims = <<>>
    /\ TheRenderer.n_render = 2
    /\ OpsOf(calls) = <<"update_buffers", "render">>

\* C10: every paint call operates on the device given to the set_window
\* call that initialized the render state.
C10_PaintUsesInitDevice ==
    \A i \in DOMAIN calls :
        calls[i].device # NoDevice =>
            is_some(render_state) /\ calls[i].device = TheRenderer.device

\* C11: max_texture_side reports a known dimension only after set_window
\* has been called at least once.
C11_SideKnownOnlyAfterSetWindow ==
    (last.op = "max_texture_side" /\ is_some(last.side)) => window_set

\* C13: destroy changes nothing: the render state, the Renderers and their
\* locks, the clones and the Painter's position are as before, in every
\* state, so a paint call after it finds what it would have found.
C13_DestroyIsNoOp ==
    [][MethodStep("destroy") =>
          /\ render_state' = render_state
          /\ renderers' = renderers
          /\ clones' = clones
          /\ pc' = "idle" /\ paints' = paints
          /\ calls' = <<>> /\ ~last'.panicked]_vars

C13_Witness ==
    /\ last.op = "destroy" /\ is_some(render_state)
    /\ TheRenderer.textures # {}
    /\ \E c \in Clients : c \in Holders(TheRenderer)

\* C14: render_state() can be called whenever the Painter is not inside a
\* paint call, whoever holds the Renderer's lock; it takes no lock, makes
\* no renderer call, returns a clone of the field and leaves the field as
\* it was.
C14_RenderStateSideEffectFree ==
    /\ [](pc = "idle" => \A c \in Clients : ENABLED render_state_call(c))
    /\ [][MethodStep("render_state") =>
             /\ render_state' = render_state
             /\ renderers' = renderers
             /\ last'.state = render_state
             /\ calls' = <<>> /\ ~last'.panicked
             /\ pc' = "idle" /\ paints' = paints]_vars

C14_Witness ==
    /\ last.op = "render_state" /\ is_some(last.state)
    /\ is_some(render_state)
    /\ TheRenderer.writer \in Clients

\* C19: with the render state absent, set_window on a surface that reports
\* no format panics after the query, constructs no Renderer and leaves the
\* state absent, and a later set_window with a non-empty list still
\* initializes it; with the state present an empty list causes no panic.
C19_EmptyFormatListPanics ==
    /\ []((last.op = "set_window" /\ last.queried /\ last.formats = <<>>) =>
             /\ last.panicked /\ ~last.constructed
             /\ is_none(render_state)
             /\ pc = "idle" =>
                   \A d \in Devices, f \in SeqsUpTo(Formats, MaxFormats) \ {<<>>} :
                       ENABLED (set_window(d, f) /\ is_some(render_state')))
    /\ [][MethodStep("set_window") =>
             /\ last'.panicked => /\ is_none(render_state) /\ is_none(render_state')
                                  /\ renderers' = renderers
                                  /\ last'.queried /\ last'.formats = <<>>
             /\ is_some(render_state) => ~last'.panicked /\ ~last'.queried]_vars

C19_Witness ==
    /\ last.op = "set_window" /\ last.panicked /\ last.queried
    /\ is_none(render_state) /\ renderers = <<>> /\ window_set

Range(seq) == {seq[i] : i \in DOMAIN seq}

\* The textures resident in the Renderer behind the Painter's render state.
Resident == TheRenderer.textures
ResidentNext == renderers'[unwrap(render_state').renderer].textures

\* The textures client c sees through its clone.
SeenBy(c) == renderers[unwrap(clones[c]).renderer].textures
SeenByNext(c) == renderers'[unwrap(clones'[c]).renderer].textures

\* C16: every clone handed out by render_state() and the Painter refer to
\* one Renderer: what a paint call adds or frees is seen through every
\* clone, what a client changes through its clone is what the Painter's
\* next paint call finds, and the Renderer is alive while the Painter or
\* any clone still holds it.
C16_OneSharedRenderer ==
    /\ [](/\ \A c \in Clients :
               is_some(clones[c]) =>
                   /\ is_some(render_state)
                   /\ unwrap(clones[c]).renderer = unwrap(render_state).renderer
                   /\ SeenBy(c) = Resident
          /\ \A a \in DOMAIN renderers :
               StrongCount(render_state, pc, clones, a) > 0 => renderers[a].alive)
    /\ [][/\ (pc = "upload" /\ pc' = "read_render") =>
               \A c \in Clients : is_some(clones'[c]) => Range(cur.set) \subseteq SeenByNext(c)
          /\ (pc = "free" /\ pc' = "idle") =>
               \A c \in Clients : is_some(clones'[c]) => Range(cur.free) \cap SeenByNext(c) = {}
          /\ (ClientStep /\ is_some(render_state)) =>
               \A c \in Clients : is_some(clones'[c]) => ResidentNext = SeenByNext(c)]_vars

C16_Witness ==
    /\ pc = "dropped" /\ paints > 0
    /\ \E c \in Clients :
          /\ is_some(clones[c])
          /\ renderers[unwrap(clones[c]).renderer].alive
          /\ SeenBy(c) # {}
          /\ ClientGuard(c) = "write"

\* The paint call is before or in its render-record.
PreFree == pc \in {"write_upload", "upload", "read_render", "render"}

\* C17 as stated: an id of the removal set that was resident when the call
\* started is resident while the render-record runs and is not resident
\* when the call returns; an id in both sets is resident after the upload
\* block and not resident after the call.
C17_ResidentThroughRender ==
    /\ [](pc = "render" => Range(cur.free) \cap cur.resident \subseteq Resident)
    /\ [][(pc = "upload" /\ pc' = "read_render") =>
             Range(cur.set) \cap Range(cur.free) \subseteq ResidentNext]_vars
    /\ [][(pc = "free" /\ pc' = "idle") => Range(cur.free) \cap ResidentNext = {}]_vars

\* C17 amended: no step of the paint call itself removes an id of the
\* removal set before the free block, and nothing changes the resident
\* textures while the render-record runs; the ids of the removal set are
\* not resident when the call returns, and an id in both sets is resident
\* after the upload block and not resident after the call.
C17_PaintFreesOnlyAfterRender ==
    /\ [][(PreFree /\ pc' # pc) =>
             \A id \in Range(cur.free) : id \in Resident => id \in ResidentNext]_vars
    /\ [][pc = "render" => ResidentNext = Resident]_vars
    /\ [][(pc = "upload" /\ pc' = "read_render") =>
             Range(cur.set) \cap Range(cur.free) \subseteq ResidentNext]_vars
    /\ [][(pc = "free" /\ pc' = "idle") => Range(cur.free) \cap ResidentNext = {}]_vars

C17_Witness ==
    /\ PaintDone
    /\ cur.set # <<>> /\ cur.set = cur.free
    /\ Range(cur.free) \cap Resident = {}
    /\ OpsOf(calls) = <<"update_texture", "update_buffers", "render", "free_texture">>

\* The guards the Painter holds on the lock of r.
PainterGuards(r) ==
    (IF r.writer = PainterHolder THEN 1 ELSE 0)
    + (IF PainterHolder \in r.readers THEN 1 ELSE 0)

\* C18: the Painter holds at most one guard at any moment, the write guard
\* only in the upload and free blocks and the read guard only in the
\* render-record, none between the phases and none after the return; with
\* no external holder each of its acquisitions succeeds.
C18_OneGuardAtATime ==
    /\ \A a \in DOMAIN renderers : PainterGuards(renderers[a]) <= 1
    /\ pc \in {"idle", "dropped", "write_upload", "read_render", "write_free"} =>
          \A a \in DOMAIN renderers : PainterGuards(renderers[a]) = 0
    /\ pc \in {"upload", "free"} => GuardOf(TheRenderer, PainterHolder) = "write"
    /\ pc = "render" => GuardOf(TheRenderer, PainterHolder) = "read"
    /\ (pc = "write_upload" /\ Holders(TheRenderer) \cap Clients = {}) => ENABLED PaintLockUpload
    /\ (pc = "read_render" /\ Holders(TheRenderer) \cap Clients = {}) => ENABLED PaintLockRender
    /\ (pc = "write_free" /\ Holders(TheRenderer) \cap Clients = {}) => ENABLED PaintLockFree

C18_Witness ==
    /\ pc = "read_render"
    /\ TheRenderer.writer \in Clients
    /\ Len(calls) = Len(cur.set) + 1

\* The paint call is in progress (it has found the render state present).
PaintRunning == pc \notin {"idle", "dropped"}

====
